---- MODULE Spec2Model ----
(***************************************************************************)
(* EmotionEase backend: the contact / sign-up form routers.                *)
(*                                                                         *)
(* Every router runs the same pipeline                                     *)
(*   (rate limiter) -> validation chains -> build record -> store ->       *)
(*   render -> send admin mail / send user mail -> (status) -> respond     *)
(* and the routers differ in the rules, the store, the way the two sends   *)
(* are awaited and the response.  The routers modelled:                    *)
(*   basic     src/unnamed/part_000            (contact, category/message) *)
(*   enhanced  src/unnamed/part_002            (contact, status field)     *)
(*   ttl       src/routes/SubdomainContact.js  (limiter, Map store, sweep) *)
(*   signup    src/routes/SignUp.js:1-241      (sign-up)                   *)
(*   submail   src/routes/SignUp.js:242-391    (limiter, no store)         *)
(* and the application src/server.js:1-30 that mounts routes/contact.js    *)
(* and routes/SignUp.js.                                                   *)
(*                                                                         *)
(* Strings are sequences of one-character strings, so that trimming,       *)
(* escaping and e-mail normalisation are computed, not assumed.            *)
(***************************************************************************)
EXTENDS Integers, Sequences, FiniteSets, TLC

(***************************************************************************)
(* Characters and strings                                                  *)
(***************************************************************************)
Lower == {"a", "b", "c", "e", "f", "g", "i", "l", "m", "o", "p", "x"}

Upper == {"A", "B", "E", "F", "L", "M", "O", "P", "X"}

Digits == {"0", "1", "2", "3", "4", "5", "6", "7", "8", "9"}

\* the characters String.prototype.trim and validator's trim() strip
Whitespace == {" ", "\t"}

\* JavaScript's null and undefined where a string is expected: one token that is
\* no character, so that it differs from every string a client can send
NULL == <<"null">>

UNDEFINED == <<"undefined">>

ToLowerChar(c) ==
    CASE c = "A" -> "a" [] c = "B" -> "b" [] c = "E" -> "e" [] c = "F" -> "f"
      [] c = "L" -> "l" [] c = "M" -> "m" [] c = "O" -> "o" [] c = "P" -> "p"
      [] c = "X" -> "x" [] OTHER -> c

ToLower(s) == [i \in 1..Len(s) |-> ToLowerChar(s[i])]

RECURSIVE TrimLeft(_)
TrimLeft(s) ==
    IF s # <<>> /\ Head(s) \in Whitespace THEN TrimLeft(Tail(s)) ELSE s

RECURSIVE TrimRight(_)
TrimRight(s) ==
    IF s # <<>> /\ s[Len(s)] \in Whitespace
    THEN TrimRight(SubSeq(s, 1, Len(s) - 1))
    ELSE s

\* validator.js trim(str): strip whitespace at both ends
Trim(s) == TrimRight(TrimLeft(s))

\* an escape() that replaces nothing
EscapeCharNone(c) == <<c>>

\* validator.js escape(str): the replacement of one character (the backquote,
\* which escape() also replaces, is not a character of this alphabet)
EscapeChar(c) ==
    CASE c = "&" -> <<"&", "a", "m", "p", ";">>
      [] c = "\"" -> <<"&", "q", "u", "o", "t", ";">>
      [] c = "'" -> <<"&", "#", "x", "2", "7", ";">>
      [] c = "<" -> <<"&", "l", "t", ";">>
      [] c = ">" -> <<"&", "g", "t", ";">>
      [] c = "/" -> <<"&", "#", "x", "2", "F", ";">>
      [] c = "\\" -> <<"&", "#", "x", "5", "C", ";">>
      [] OTHER -> <<c>>

RECURSIVE Escape(_)
Escape(s) == IF s = <<>> THEN <<>> ELSE EscapeChar(Head(s)) \o Escape(Tail(s))

\* the positions of character c in s
Positions(s, c) == {i \in 1..Len(s) : s[i] = c}

LastPos(s, c) == CHOOSE i \in Positions(s, c) : \A j \in Positions(s, c) : j <= i

\* s without the characters of set cs
RECURSIVE Without(_, _)
Without(s, cs) ==
    IF s = <<>> THEN <<>>
    ELSE IF Head(s) \in cs THEN Without(Tail(s), cs)
    ELSE <<Head(s)>> \o Without(Tail(s), cs)

\* s.split(c): the pieces of s between occurrences of c
RECURSIVE Split(_, _)
Split(s, c) ==
    IF Positions(s, c) = {} THEN <<s>>
    ELSE LET p == CHOOSE i \in Positions(s, c) : \A j \in Positions(s, c) : i <= j
         IN  <<SubSeq(s, 1, p - 1)>> \o Split(SubSeq(s, p + 1, Len(s)), c)

AllIn(s, cs) == \A i \in 1..Len(s) : s[i] \in cs

(***************************************************************************)
(* validator.js predicates and sanitizers used by the validation chains    *)
(***************************************************************************)
\* isEmail: characters of an unquoted local part
EmailUserChars ==
    Lower \cup Upper \cup Digits \cup
    {"!", "#", "$", "%", "&", "'", "*", "+", "-", "/", "=", "?", "^", "_",
     "{", "|", "}", "~"}

\* isFQDN: characters of a domain label
DomainChars == Lower \cup Upper \cup Digits \cup {"-"}

\* isFQDN(domain) with require_tld: at least two labels, an alphabetic top-level
\* label of two or more letters, every label non-empty, at most 63 long, of label
\* characters, with no hyphen at either end
IsFQDN(d) ==
    LET parts == Split(d, ".")
        tld == parts[Len(parts)]
    IN  /\ Len(parts) >= 2
        /\ Len(tld) >= 2
        /\ AllIn(tld, Lower \cup Upper)
        /\ \A i \in 1..Len(parts) :
              /\ Len(parts[i]) >= 1
              /\ Len(parts[i]) <= 63
              /\ AllIn(parts[i], DomainChars)
              /\ parts[i][1] # "-"
              /\ parts[i][Len(parts[i])] # "-"

\* validator.js isEmail(str), default options: the part after the last '@' is a
\* fully qualified domain name, the part before it is dot-separated atoms
IsEmail(s) ==
    /\ Positions(s, "@") # {}
    /\ LET at == LastPos(s, "@")
           user == SubSeq(s, 1, at - 1)
           domain == SubSeq(s, at + 1, Len(s))
           atoms == Split(user, ".")
       IN  /\ Len(user) <= 64
           /\ Len(domain) <= 254
           /\ IsFQDN(domain)
           /\ \A i \in 1..Len(atoms) :
                 Len(atoms[i]) >= 1 /\ AllIn(atoms[i], EmailUserChars)

GMAIL == <<"g", "m", "a", "i", "l", ".", "c", "o", "m">>

GOOGLEMAIL == <<"g", "o", "o", "g", "l", "e", "m", "a", "i", "l", ".", "c", "o", "m">>

\* validator.js normalizeEmail(email), default options: the domain is lowercased;
\* a gmail address loses its sub-address and its dots and is lowercased (the result
\* is false, which express-validator stores as the value, when nothing is left);
\* any other local part is lowercased.  (The icloud / outlook / yahoo / yandex
\* branches only differ for those domains.)
NormalizeEmail(s) ==
    LET pieces == Split(s, "@")
        domain == ToLower(pieces[Len(pieces)])
        user == IF Positions(s, "@") = {} THEN <<>>
                ELSE SubSeq(s, 1, LastPos(s, "@") - 1)
    IN  IF domain \in {GMAIL, GOOGLEMAIL}
        THEN LET u == ToLower(Without(Split(user, "+")[1], {"."}))
             IN  IF u = <<>> THEN <<"false">> ELSE u \o <<"@">> \o GMAIL
        ELSE ToLower(user) \o <<"@">> \o domain

\* matches(/^[\d\s+()\-]*$/)  (SubdomainContact.js:85, SignUp.js:293)
PhoneCharsWs == Digits \cup Whitespace \cup {"+", "(", ")", "-"}

\* matches(/^[0-9+() -]*$/)  (part_002:51)
PhoneCharsSp == Digits \cup {" ", "+", "(", ")", "-"}

\* validator.js isMobilePhone(str) for any locale, as far as the inputs used here
\* go: the en-IN form /^(\+?91|0)?[6789]\d{9}$/
IsMobilePhone(s) ==
    LET core == IF Len(s) >= 10 THEN SubSeq(s, Len(s) - 9, Len(s)) ELSE <<>>
        pre == IF Len(s) >= 10 THEN SubSeq(s, 1, Len(s) - 10) ELSE <<>>
    IN  /\ Len(s) >= 10
        /\ AllIn(core, Digits)
        /\ core[1] \in {"6", "7", "8", "9"}
        /\ pre \in {<<>>, <<"0">>, <<"9", "1">>, <<"+", "9", "1">>}

(***************************************************************************)
(* express-validator: validation chains                                    *)
(*                                                                         *)
(* A chain is run item by item on the string form of the field (an absent  *)
(* field gives the empty string).  A sanitizer replaces the value, a       *)
(* validator that fails adds its message and the run goes on (no bail()).  *)
(* The final value is written back to req.body, also when validation       *)
(* fails.  An optional() chain is skipped when the field is absent.        *)
(***************************************************************************)
San(op) == [op |-> op, arg |-> 0, msg |-> ""]

Val(op, arg, msg) == [op |-> op, arg |-> arg, msg |-> msg]

Sanitizers == {"trim", "escape", "normalizeEmail"}

Sanitize(op, v) ==
    CASE op = "trim" -> Trim(v)
      [] op = "escape" -> Escape(v)
      [] op = "normalizeEmail" -> NormalizeEmail(v)

Holds(st, v) ==
    CASE st.op = "notEmpty" -> v # <<>>
      [] st.op = "isEmail" -> IsEmail(v)
      [] st.op = "isLength" -> Len(v) >= st.arg.min /\ Len(v) <= st.arg.max
      [] st.op = "isLengthMax" -> Len(v) <= st.arg
      [] st.op = "isLengthMin" -> Len(v) >= st.arg
      [] st.op = "matches" -> AllIn(v, st.arg)
      [] st.op = "isMobilePhone" -> IsMobilePhone(v)

RECURSIVE RunFrom(_, _, _, _)
RunFrom(chain, i, v, msgs) ==
    IF i > Len(chain) THEN [value |-> v, msgs |-> msgs]
    ELSE IF chain[i].op \in Sanitizers
         THEN RunFrom(chain, i + 1, Sanitize(chain[i].op, v), msgs)
         ELSE RunFrom(chain, i + 1, v,
                      IF Holds(chain[i], v) THEN msgs ELSE Append(msgs, chain[i].msg))

Rule(field, optional, chain) == [field |-> field, optional |-> optional, chain |-> chain]

\* src/unnamed/part_000:21-29
BasicRules ==
    << Rule("name", FALSE,
            << Val("notEmpty", 0, "Name is required"), San("trim"), San("escape") >>),
       Rule("email", FALSE,
            << Val("notEmpty", 0, "Email is required"),
               Val("isEmail", 0, "Email is invalid"),
               San("normalizeEmail") >>),
       Rule("category", FALSE,
            << Val("notEmpty", 0, "Category is required"), San("trim"), San("escape") >>),
       Rule("message", FALSE,
            << Val("notEmpty", 0, "Message is required"), San("trim"), San("escape") >>) >>

\* src/unnamed/part_002:33-52
EnhancedRules ==
    << Rule("name", FALSE,
            << Val("notEmpty", 0, "Name is required"), San("trim"), San("escape"),
               Val("isLengthMax", 100,
                   "Name must be less than 100 characters") >>),
       Rule("email", FALSE,
            << Val("notEmpty", 0, "Email is required"),
               Val("isEmail", 0, "Email is invalid"),
               San("normalizeEmail"),
               Val("isLengthMax", 255,
                   "Email must be less than 255 characters") >>),
       Rule("phone", TRUE,
            << San("trim"), San("escape"),
               Val("isLengthMax", 20,
                   "Phone must be less than 20 characters"),
               Val("matches", PhoneCharsSp, "Phone contains invalid characters") >>) >>

\* src/routes/SubdomainContact.js:66-86 and src/routes/SignUp.js:274-294
LimitedRules ==
    << Rule("name", FALSE,
            << San("trim"), San("escape"),
               Val("notEmpty", 0, "Name is required"),
               Val("isLengthMax", 100,
                   "Name must be less than 100 characters") >>),
       Rule("email", FALSE,
            << San("trim"), San("normalizeEmail"),
               Val("notEmpty", 0, "Email is required"),
               Val("isEmail", 0, "Email is invalid"),
               Val("isLengthMax", 255,
                   "Email must be less than 255 characters") >>),
       Rule("phone", TRUE,
            << San("trim"), San("escape"),
               Val("isLengthMax", 20,
                   "Phone must be less than 20 characters"),
               Val("matches", PhoneCharsWs, "Phone contains invalid characters") >>) >>

\* src/routes/SignUp.js:22-38
SignupRules ==
    << Rule("name", FALSE,
            << Val("notEmpty", 0, "Name is required"),
               Val("isLengthMin", 3,
                   "Name must be at least 3 characters"),
               San("trim"), San("escape") >>),
       Rule("email", FALSE,
            << Val("notEmpty", 0, "Email is required"),
               Val("isEmail", 0, "Email is invalid"),
               San("normalizeEmail") >>),
       Rule("phone", FALSE,
            << Val("notEmpty", 0, "Phone number is required"),
               Val("isMobilePhone", 0, "Phone number is invalid"),
               Val("isLength", [min |-> 10, max |-> 10],
                   "Phone number must be 10 digits"),
               San("trim"), San("escape") >>) >>

Handlers == {"basic", "enhanced", "ttl", "signup", "submail"}

Rules(h) ==
    CASE h = "basic" -> BasicRules
      [] h = "enhanced" -> EnhancedRules
      [] h \in {"ttl", "submail"} -> LimitedRules
      [] h = "signup" -> SignupRules

\* req.body[f] as a validator sees it
ToStr(body, f) == IF f \in DOMAIN body THEN body[f] ELSE <<>>

\* the rules that run on this body (an optional chain is skipped on an absent field)
Runs(rule, body) == ~rule.optional \/ rule.field \in DOMAIN body

RuleResult(rule, body) == RunFrom(rule.chain, 1, ToStr(body, rule.field), <<>>)

\* the errors of one rule, each carrying the field it is about (err.path)
RuleErrors(rule, body) ==
    LET msgs == RuleResult(rule, body).msgs
    IN  [i \in 1..Len(msgs) |-> [field |-> rule.field, message |-> msgs[i]]]

RECURSIVE ErrorsFrom(_, _, _)
ErrorsFrom(rules, i, body) ==
    IF i > Len(rules) THEN <<>>
    ELSE (IF Runs(rules[i], body) THEN RuleErrors(rules[i], body) ELSE <<>>)
         \o ErrorsFrom(rules, i + 1, body)

\* validationResult(req): every error of every chain, in rule order
ValidationErrors(h, body) == ErrorsFrom(Rules(h), 1, body)

\* errors.array({ onlyFirstError: true }): the first error of each field
OnlyFirstError(errs) ==
    LET keep == {i \in 1..Len(errs) : \A j \in 1..(i - 1) : errs[j].field # errs[i].field}
        F[i \in 0..Len(errs)] ==
            IF i = 0 THEN <<>>
            ELSE IF i \in keep THEN Append(F[i - 1], errs[i]) ELSE F[i - 1]
    IN  F[Len(errs)]

\* the error list of the 400 response
ResponseErrors(h, body) ==
    IF h \in {"enhanced", "ttl"} THEN OnlyFirstError(ValidationErrors(h, body))
    ELSE ValidationErrors(h, body)

\* req.body after the chains ran: every field a chain ran on holds the chain's
\* final value, every other field is as the client sent it
Sanitized(h, body) ==
    LET rules == Rules(h)
        ran == {i \in 1..Len(rules) : Runs(rules[i], body)}
        ranFields == {rules[i].field : i \in ran}
        ruleOf(f) == rules[CHOOSE i \in ran : rules[i].field = f]
    IN  [f \in DOMAIN body \cup ranFields |->
            IF f \in ranFields THEN RuleResult(ruleOf(f), body).value ELSE body[f]]

(***************************************************************************)
(* Program constants                                                       *)
(***************************************************************************)
\* rateLimit({ windowMs: 15 * 60 * 1000, max: 5, message: ... })
WindowMs == 900000

MaxHits == 5

RateLimitMessage == "Too many contact attempts, please try again later"

\* SUBMISSION_TTL = 24 * 60 * 60 * 1000 and the setInterval period 60 * 60 * 1000
SUBMISSION_TTL == 86400000

SweepIntervalMs == 3600000

\* the status express-rate-limit answers with (its default statusCode)
TooManyRequests == 429

(***************************************************************************)
(* What is loaded: one router on its own, or the application of server.js. *)
(* server.js imports both contactRoutes and SubDomainContactRouter from    *)
(* './routes/contact.js'; the contact router of this repository exists in  *)
(* two versions (part_000, part_002), so the application is modelled with  *)
(* either of them.                                                         *)
(***************************************************************************)
Deployments == Handlers \cup {"app_basic", "app_enhanced"}

\* the router modules a deployment loads
Modules(d) ==
    CASE d = "app_basic" -> {"basic", "signup"}
      [] d = "app_enhanced" -> {"enhanced", "signup"}
      [] OTHER -> {d}

\* routes/contact.js as the application imports it
ContactModule(d) == IF d = "app_basic" THEN "basic" ELSE "enhanced"

IsApp(d) == d \in {"app_basic", "app_enhanced"}

\* the POST routes of a deployment
PostPaths(d) ==
    IF IsApp(d)
    THEN {"/api/contact/submit", "/api/signup/", "/subdomain-contact/submit"}
    ELSE IF d = "signup" THEN {"/"} ELSE {"/submit"}

\* app.use(prefix, router): the router that serves a POST path
Serves(d, path) ==
    IF IsApp(d)
    THEN CASE path = "/api/contact/submit" -> ContactModule(d)
           [] path = "/api/signup/" -> "signup"
           [] path = "/subdomain-contact/submit" -> ContactModule(d)
    ELSE d

\* routers whose POST route has contactLimiter in front of the validation chains
HasLimiter(h) == h \in {"ttl", "submail"}

\* routers that keep submissions, and those that also serve GET list
HasStore(h) == h # "submail"

HasList(h) == h \in {"basic", "signup"}

\* routers whose records carry a status
HasStatus(h) == h \in {"enhanced", "ttl"}

\* routers that await the two sends one after the other
Sequential(h) == h \in {"basic", "signup"}

\* the fields of req.body a router reads (its chains and its destructuring)
BodyFields(h) ==
    IF h = "basic" THEN {"name", "email", "phone", "category", "message", "age"}
    ELSE {"name", "email", "phone"}

\* createTransporter() throws at import when EMAIL_USER / EMAIL_PASS are absent
\* (part_002:12-30, SubdomainContact.js:33-63): nothing of the deployment runs
ThrowsAtLoad(h, e) == h \in {"enhanced", "ttl"} /\ ~e.creds

(***************************************************************************)
(* Mail transport: the outcome of one sendMail                             *)
(***************************************************************************)
MissingCredentials == "Missing credentials for \"PLAIN\""

ConnRefused == "connect ECONNREFUSED 127.0.0.1:465"

AdminNotConfigured == "Admin email not configured"

\* error.message.includes('credentials')
IncludesCredentials(msg) == msg = MissingCredentials

\* what a send can settle to: delivered, or rejected with an error message;
\* without credentials nodemailer cannot authenticate, so no send succeeds
Outcomes(e) ==
    IF e.creds THEN {"ok", MissingCredentials, ConnRefused}
    ELSE {MissingCredentials, ConnRefused}

\* a send as its request sees it: not started, pending, delivered or rejected
SendState(o) == IF o = "ok" THEN "ok" ELSE "failed"

Failed(o) == o \notin {"none", "inflight", "ok"}

Settled(o) == o \notin {"none", "inflight"}

(***************************************************************************)
(* State                                                                   *)
(***************************************************************************)
VARIABLES
    loaded,     \* the deployment
    env,        \* process.env: [creds, adminEmail, dev]
    now,        \* Date.now(), ms since the process started
    ticks,      \* how many times the clock was advanced
    lastSweep,  \* when the sweep timer last fired (or was started)
    hits,       \* contactLimiter's store: ip -> [count, resetTime]
    recent,     \* history: ip -> when its last MaxHits limited requests arrived
    heap,       \* the submission objects ever created, by object number
    store,      \* router -> the object numbers its store holds, in order
    reqs,       \* the requests received and not yet forgotten
    arrived,    \* how many requests were received
    listed      \* the GET list response just sent, if any

vars ==
    <<loaded, env, now, ticks, lastSweep, hits, recent, heap, store, reqs, arrived, listed>>

IPs == {"10.0.0.1", "10.0.0.2"}

NoHits == [count |-> 0, resetTime |-> 0]

NoList == [h |-> "none", data |-> <<>>]

\* a response body without an id
NoId == 0 - 1

NoResp == [status |-> 0, success |-> "absent", id |-> NoId, errors |-> <<>>,
           message |-> "", error |-> "undefined"]

Crashed == \E h \in Modules(loaded) : ThrowsAtLoad(h, env)

\* environments that differ only in a variable no loaded router reads are one
Envs(d) ==
    {e \in [creds : BOOLEAN, adminEmail : BOOLEAN, dev : BOOLEAN] :
        /\ ("enhanced" \notin Modules(d) => e.adminEmail)
        /\ (Modules(d) \cap {"enhanced", "ttl"} = {} => ~e.dev)}

\* the state after the modules of deployment d were imported
Start(d) ==
    /\ loaded = d
    /\ env \in Envs(d)
    /\ now = 0
    /\ ticks = 0
    /\ lastSweep = 0
    /\ hits = [ip \in IPs |-> NoHits]
    /\ recent = [ip \in IPs |-> <<>>]
    /\ heap = <<>>
    /\ store = [h \in Handlers |-> <<>>]
    /\ reqs = <<>>
    /\ arrived = 0
    /\ listed = NoList

\* one router, loaded on its own
Init == \E d \in Handlers : Start(d)

(***************************************************************************)
(* Building and storing a submission                                       *)
(***************************************************************************)
\* a destructured field of req.body
Field(b, f) == IF f \in DOMAIN b THEN b[f] ELSE UNDEFINED

\* phone || null
OrNull(v) == IF v \in {UNDEFINED, <<>>} THEN NULL ELSE v

\* a record that is born completed
NewRecordCompleted(h, b, ip) ==
    [id |-> now, name |-> Field(b, "name"), email |-> Field(b, "email"),
     date |-> now, status |-> "completed"]

\* the submission object a router builds from the sanitized body b.  id is
\* Date.now() (as such or as a decimal string) and date is the ISO form of the same
\* clock reading; both are kept as the reading itself
NewRecord(h, b, ip) ==
    CASE h = "basic" ->
            [id |-> now, name |-> Field(b, "name"), email |-> Field(b, "email"),
             phone |-> OrNull(Field(b, "phone")), category |-> Field(b, "category"),
             age |-> Field(b, "age"), message |-> Field(b, "message"), date |-> now]
      [] h = "enhanced" ->
            [id |-> now, name |-> Field(b, "name"), email |-> Field(b, "email"),
             phone |-> OrNull(Field(b, "phone")), date |-> now, status |-> "pending"]
      [] h = "ttl" ->
            [id |-> now, name |-> Field(b, "name"), email |-> Field(b, "email"),
             phone |-> OrNull(Field(b, "phone")), date |-> now, status |-> "pending",
             ip |-> ip]
      [] h = "signup" ->
            [id |-> now, name |-> Field(b, "name"), email |-> Field(b, "email"),
             phone |-> Field(b, "phone"), date |-> now, source |-> "website_signup"]

\* a push that loses the record
PushLost(objs, o) == objs

\* submissions.push(submission)
Push(objs, o) == Append(objs, o)

\* submissions.set(id, submission) on the Map, hp being the heap: an entry with
\* the same key keeps its place and gets the new object, a new key goes last
MapSet(objs, o, hp) ==
    IF \E k \in 1..Len(objs) : hp[objs[k]].id = hp[o].id
    THEN [k \in 1..Len(objs) |-> IF hp[objs[k]].id = hp[o].id THEN o ELSE objs[k]]
    ELSE Append(objs, o)

\* the store of router h after the insert of object o
Inserted(h, objs, o, hp) == IF h = "ttl" THEN MapSet(objs, o, hp) ELSE Push(objs, o)

(***************************************************************************)
(* contactLimiter: express-rate-limit with its memory store, a fixed       *)
(* window per client address that opens with the address's first request   *)
(***************************************************************************)
Hit(ip) ==
    IF hits[ip].count = 0 \/ now >= hits[ip].resetTime
    THEN [count |-> 1, resetTime |-> now + WindowMs]
    ELSE [count |-> hits[ip].count + 1, resetTime |-> hits[ip].resetTime]

\* a limiter that already refuses the request that fills the window
OverLimitEarly(h, ip) == HasLimiter(h) /\ Hit(ip).count >= MaxHits

OverLimit(h, ip) == HasLimiter(h) /\ Hit(ip).count > MaxHits

(***************************************************************************)
(* Responses                                                               *)
(***************************************************************************)
Resp(status, success, id, errors, message, error) ==
    [status |-> status, success |-> success, id |-> id, errors |-> errors,
     message |-> message, error |-> error]

\* res.status(429).send(message)
LimitedResp == Resp(TooManyRequests, "absent", NoId, <<>>, RateLimitMessage, "undefined")

\* res.status(400).json({ success: false, (message,) errors })
InvalidResp(h, body) ==
    Resp(400, "false", NoId, ResponseErrors(h, body),
         IF HasLimiter(h) THEN "Validation failed" ELSE "", "undefined")

\* res.status(200).json({ success: true, message, data }); id is data.id, NoId
\* when the body has no data (SignUp.js:320-323)
SuccessResp(h, id) ==
    Resp(200, "true", id, <<>>,
         IF h = "signup" THEN "Thank you for signing up! We will contact you soon."
         ELSE "Thank you for contacting us! We will get back to you soon.",
         "undefined")

\* error.message.includes('credentials') ? 503 : 500  (SubdomainContact.js:173)
\* error.message.includes('credentials') ? 500 : 500  (part_002:130)
\* a catch block that answers 200
FailureStatusOk(h, msg) == 200

FailureStatus(h, msg) ==
    IF h = "ttl" /\ IncludesCredentials(msg) THEN 503 ELSE 500

FailureMessage(h, msg) ==
    CASE h = "basic" -> "Form submitted but failed to send confirmation email"
      [] h = "signup" -> "Signup processed but email sending failed"
      [] h = "submail" -> "Failed to process your submission. Please try again later."
      [] OTHER -> IF IncludesCredentials(msg) THEN "Service temporarily unavailable"
                  ELSE "Failed to process your submission. Please try again later."

\* the error member of the failure body
FailureDetail(h, msg) ==
    CASE h \in {"basic", "signup"} -> msg
      [] h = "submail" -> "undefined"
      [] OTHER -> IF env.dev THEN msg ELSE "undefined"

\* the catch block's response
FailureResp(h, msg) ==
    Resp(FailureStatus(h, msg), "false", NoId, <<>>, FailureMessage(h, msg),
         FailureDetail(h, msg))

(***************************************************************************)
(* The handler after the sends: what the try block's tail and the catch    *)
(* block do to the submission object and the store                         *)
(***************************************************************************)
\* a success path that leaves the record pending
HeapStillPending(h, o) == heap

\* submission.status = 'completed'
HeapCompleted(h, o) ==
    IF HasStatus(h) THEN [heap EXCEPT ![o].status = "completed"] ELSE heap

\* a catch block that leaves the record as it is
HeapUnmarked(h, o, msg) == heap

\* submission.status = 'failed' (and submission.error = error.message)
HeapFailed(h, o, msg) ==
    CASE h = "enhanced" -> [heap EXCEPT ![o].status = "failed"]
      [] h = "ttl" ->
            [heap EXCEPT ![o] = [f \in DOMAIN heap[o] \cup {"error"} |->
                                    CASE f = "status" -> "failed"
                                      [] f = "error" -> msg
                                      [] OTHER -> heap[o][f]]]
      [] OTHER -> heap

\* submissions.set(submissionId, submission) after the status update
StoreAfter(h, o, hp) ==
    IF h = "ttl" THEN [store EXCEPT !["ttl"] = MapSet(@, o, hp)] ELSE store

\* every router awaiting its sends as the enhanced one does: any rejection fails
VerdictStrict(r, which, o) ==
    LET other == IF which = "admin" THEN r.user ELSE r.admin
    IN  CASE r.phase = "done" -> "late"
          [] Sequential(r.h) ->
                IF Failed(o) THEN "failure"
                ELSE IF which = "admin" THEN "next" ELSE "success"
          [] OTHER ->
                IF Failed(o) THEN "failure"
                ELSE IF other = "ok" THEN "success"
                ELSE "wait"

\* what the settling of one send means for the handler that awaits it
\*   late     the handler has responded already
\*   next     the admin send is done, the user send starts (sequential routers)
\*   wait     Promise.all still waits for the other send
\*   success  the awaits are through: the tail of the try block runs
\*   failure  the await throws: the catch block runs
Verdict(r, which, o) ==
    LET other == IF which = "admin" THEN r.user ELSE r.admin
    IN  CASE r.phase = "done" -> "late"
          [] Sequential(r.h) ->
                IF Failed(o) THEN "failure"
                ELSE IF which = "admin" THEN "next" ELSE "success"
          [] r.h = "ttl" /\ which = "user" ->
                \* .catch(err => console.error(...)): the user send never rejects
                IF other = "ok" THEN "success" ELSE "wait"
          [] OTHER ->
                IF Failed(o) THEN "failure"
                ELSE IF other = "ok" \/ (r.h = "ttl" /\ Settled(other)) THEN "success"
                ELSE "wait"

\* request r after send `which` settled to o
AfterSettle(r, which, o) ==
    LET v == Verdict(r, which, o)
        r1 == IF which = "admin" THEN [r EXCEPT !.admin = SendState(o)]
              ELSE [r EXCEPT !.user = SendState(o)]
    IN  CASE v = "next" -> [r1 EXCEPT !.user = "inflight"]
          [] v = "success" ->
                [r1 EXCEPT !.phase = "done",
                           !.resp = SuccessResp(r.h, IF r.obj = 0 THEN NoId ELSE heap[r.obj].id)]
          [] v = "failure" -> [r1 EXCEPT !.phase = "done", !.resp = FailureResp(r.h, o)]
          [] OTHER -> r1

HeapAfterSettle(r, which, o) ==
    LET v == Verdict(r, which, o)
    IN  CASE v = "success" /\ r.obj # 0 -> HeapCompleted(r.h, r.obj)
          [] v = "failure" /\ r.obj # 0 -> HeapFailed(r.h, r.obj, o)
          [] OTHER -> heap

StoreAfterSettle(r, which, o) ==
    IF Verdict(r, which, o) \in {"success", "failure"} /\ r.obj # 0
    THEN StoreAfter(r.h, r.obj, HeapAfterSettle(r, which, o))
    ELSE store

(***************************************************************************)
(* Actions                                                                 *)
(***************************************************************************)
Restrict(raw, fs) == [f \in DOMAIN raw \cap fs |-> raw[f]]

Request(path, h, ip, body, phase, admin, user, obj, resp) ==
    [path |-> path, h |-> h, ip |-> ip, body |-> body, phase |-> phase,
     admin |-> admin, user |-> user, obj |-> obj, resp |-> resp]

\* what the middleware in front of the handler decides: contactLimiter comes
\* first where it is installed, then the validation chains run and the handler
\* answers 400 if they left errors
\* a router whose validation runs in front of its limiter
GateValidatesFirst(h, ip, body) ==
    IF ValidationErrors(h, body) # <<>> THEN "invalid"
    ELSE IF OverLimit(h, ip) THEN "limited"
    ELSE "pass"

Gate(h, ip, body) ==
    IF OverLimit(h, ip) THEN "limited"
    ELSE IF ValidationErrors(h, body) # <<>> THEN "invalid"
    ELSE "pass"

\* a handler that inserts its record whatever the middleware decided
PersistsAlways(h, g) == HasStore(h)

\* the handler gets as far as its insertion: the limiter called next() and the
\* early return on validation errors was not taken
Persists(h, g) == HasStore(h) /\ g = "pass"

\* the last MaxHits arrival times of an address, t being the newest
Remember(times, t) ==
    LET all == Append(times, t)
    IN  IF Len(all) > MaxHits THEN Tail(all) ELSE all

\* POST path from address ip with body raw: the limiter (where installed), the
\* validation chains, and the handler up to its first await
Submit(path, ip, raw) ==
    LET h == Serves(loaded, path)
        body == Restrict(raw, BodyFields(h))
        o == Len(heap) + 1
        hp == Append(heap, NewRecord(h, Sanitized(h, body), ip))
        g == Gate(h, ip, body)
    IN  /\ ~Crashed
        /\ path \in PostPaths(loaded)
        /\ arrived' = arrived + 1
        /\ listed' = NoList
        /\ hits' = IF HasLimiter(h) THEN [hits EXCEPT ![ip] = Hit(ip)] ELSE hits
        /\ recent' = IF HasLimiter(h) THEN [recent EXCEPT ![ip] = Remember(@, now)]
                     ELSE recent
        /\ IF Persists(h, g)
           THEN /\ heap' = hp
                /\ store' = [store EXCEPT ![h] = Inserted(h, @, o, hp)]
           ELSE UNCHANGED <<heap, store>>
        /\ reqs' = Append(reqs,
              CASE g = "limited" ->
                     Request(path, h, ip, body, "done", "none", "none", 0, LimitedResp)
                [] g = "invalid" ->
                     Request(path, h, ip, body, "done", "none", "none", 0,
                             InvalidResp(h, body))
                [] g = "pass" /\ ~HasStore(h) ->
                     \* await Promise.all([sendAdminEmail(...), sendUserEmail(...)])
                     Request(path, h, ip, body, "sending", "inflight", "inflight", 0,
                             NoResp)
                [] g = "pass" /\ Sequential(h) ->
                     \* await transporter.sendMail(adminMailOptions)
                     Request(path, h, ip, body, "sending", "inflight", "none", o, NoResp)
                [] OTHER ->
                     \* await Promise.all([generateAdminEmail(...), generateUserEmail(...)])
                     Request(path, h, ip, body, "rendering", "none", "none", o, NoResp))
        /\ UNCHANGED <<loaded, env, now, ticks, lastSweep>>

\* if (!process.env.ADMIN_EMAIL) throw new Error('Admin email not configured')
ThrowsNotConfigured(h) == h = "enhanced" /\ ~env.adminEmail

\* request i resumes with its rendered e-mails: the configuration check of the
\* enhanced router, then both sends are started and awaited together
Dispatch(i) ==
    /\ i \in 1..Len(reqs)
    /\ reqs[i].phase = "rendering"
    /\ IF ThrowsNotConfigured(reqs[i].h)
       THEN /\ reqs' = [reqs EXCEPT ![i].phase = "done",
                                    ![i].resp = FailureResp(reqs[i].h, AdminNotConfigured)]
            /\ heap' = HeapFailed(reqs[i].h, reqs[i].obj, AdminNotConfigured)
            /\ store' = store
       ELSE /\ reqs' = [reqs EXCEPT ![i].phase = "sending", ![i].admin = "inflight",
                                    ![i].user = "inflight"]
            /\ UNCHANGED <<heap, store>>
    /\ listed' = NoList
    /\ UNCHANGED <<loaded, env, now, ticks, lastSweep, hits, recent, arrived>>

\* the admin send of request i settles to o, and the handler goes on
SettleAdmin(i, o) ==
    /\ i \in 1..Len(reqs)
    /\ reqs[i].admin = "inflight"
    /\ o \in Outcomes(env)
    /\ reqs' = [reqs EXCEPT ![i] = AfterSettle(reqs[i], "admin", o)]
    /\ heap' = HeapAfterSettle(reqs[i], "admin", o)
    /\ store' = StoreAfterSettle(reqs[i], "admin", o)
    /\ listed' = NoList
    /\ UNCHANGED <<loaded, env, now, ticks, lastSweep, hits, recent, arrived>>

\* the user send of request i settles to o, and the handler goes on
SettleUser(i, o) ==
    /\ i \in 1..Len(reqs)
    /\ reqs[i].user = "inflight"
    /\ o \in Outcomes(env)
    /\ reqs' = [reqs EXCEPT ![i] = AfterSettle(reqs[i], "user", o)]
    /\ heap' = HeapAfterSettle(reqs[i], "user", o)
    /\ store' = StoreAfterSettle(reqs[i], "user", o)
    /\ listed' = NoList
    /\ UNCHANGED <<loaded, env, now, ticks, lastSweep, hits, recent, arrived>>

\* a list that leaves out the newest record
ListDataButLast(h) == [k \in 1..(Len(store[h]) - 1) |-> heap[store[h][k]]]

\* data: submissions
ListData(h) == [k \in 1..Len(store[h]) |-> heap[store[h][k]]]

\* GET list of router h: { success: true, count, data: submissions }
GetList(h) ==
    /\ ~Crashed
    /\ h \in Modules(loaded)
    /\ HasList(h)
    /\ listed' = [h |-> h, data |-> ListData(h)]
    /\ UNCHANGED <<loaded, env, now, ticks, lastSweep, hits, recent, heap, store, reqs, arrived>>

\* a sweep that also takes the records that are exactly SUBMISSION_TTL old
ExpiredAtTTL(o, t) == t - heap[o].date >= SUBMISSION_TTL

\* now - new Date(submission.date).getTime() > SUBMISSION_TTL, at clock reading t
Expired(o, t) == t - heap[o].date > SUBMISSION_TTL

SweepRuns == "ttl" \in Modules(loaded) /\ ~Crashed

\* the entries of the Map that a sweep at clock reading t leaves
Kept(objs, t) ==
    LET keep == {k \in 1..Len(objs) : ~Expired(objs[k], t)}
        F[k \in 0..Len(objs)] ==
            IF k = 0 THEN <<>>
            ELSE IF k \in keep THEN Append(F[k - 1], objs[k]) ELSE F[k - 1]
    IN  F[Len(objs)]

\* the setInterval callback: delete every entry older than SUBMISSION_TTL
Sweep ==
    /\ SweepRuns
    /\ now >= lastSweep + SweepIntervalMs
    /\ store' = [store EXCEPT !["ttl"] = Kept(@, now)]
    /\ lastSweep' = now
    /\ listed' = NoList
    /\ UNCHANGED <<loaded, env, now, ticks, hits, recent, heap, reqs, arrived>>

\* the timer instants strictly before clock reading t that have not fired
Skipped(t) ==
    IF (t - lastSweep) % SweepIntervalMs = 0
    THEN (t - lastSweep) \div SweepIntervalMs - 1
    ELSE (t - lastSweep) \div SweepIntervalMs

\* d ms pass.  Timer instants that are passed over are those at which the sweep
\* would delete nothing: a sweep that has something to delete fires first
Advance(d) ==
    LET t == now + d
        last == lastSweep + Skipped(t) * SweepIntervalMs
    IN  /\ ~Crashed
        /\ now' = t
        /\ ticks' = ticks + 1
        /\ IF SweepRuns /\ Skipped(t) > 0
           THEN /\ Kept(store["ttl"], last) = store["ttl"]
                /\ lastSweep' = last
           ELSE lastSweep' = lastSweep
        /\ listed' = NoList
        /\ UNCHANGED <<loaded, env, hits, recent, heap, store, reqs, arrived>>

\* an answered request whose sends have settled is forgotten
Close(i) ==
    /\ i \in 1..Len(reqs)
    /\ reqs[i].phase = "done"
    /\ reqs[i].admin # "inflight"
    /\ reqs[i].user # "inflight"
    /\ reqs' = [k \in 1..(Len(reqs) - 1) |-> IF k < i THEN reqs[k] ELSE reqs[k + 1]]
    /\ listed' = NoList
    /\ UNCHANGED <<loaded, env, now, ticks, lastSweep, hits, recent, heap, store, arrived>>

(***************************************************************************)
(* Inputs and bounds                                                       *)
(***************************************************************************)
MaxReq == 2

MaxTicks == 1

Bob == <<"B", "o", "b">>

Mail == <<"a", "@", "b", ".", "c", "o">>

Phone == <<"9", "8", "7", "6", "5", "4", "3", "2", "1", "0">>

FullBody ==
    [name |-> Bob, email |-> Mail, phone |-> Phone, category |-> <<"x">>,
     message |-> <<"o", "x">>, age |-> <<"3", "0">>]

Less(b, f) == Restrict(b, DOMAIN b \ {f})

\* the complete body, and the complete body less one field
OneMissing == {FullBody} \cup {Less(FullBody, f) : f \in DOMAIN FullBody}

\* a body every router accepts and a body every router rejects
Bodies == {FullBody, Less(FullBody, "name")}

\* long enough for a record to outlive SUBMISSION_TTL and meet the next sweep
TimeSteps == {SUBMISSION_TTL + SweepIntervalMs}

\* the steps of the handlers after the submit, and the GET list route
Pipeline ==
    \/ \E i \in 1..Len(reqs) : Dispatch(i)
    \/ \E i \in 1..Len(reqs), o \in Outcomes(env) : SettleAdmin(i, o)
    \/ \E i \in 1..Len(reqs), o \in Outcomes(env) : SettleUser(i, o)
    \/ \E h \in Handlers : GetList(h)

Next ==
    \/ \E path \in PostPaths(loaded), raw \in Bodies :
          Len(reqs) < MaxReq /\ Submit(path, "10.0.0.1", raw)
    \/ Pipeline
    \/ \E d \in TimeSteps : ticks < MaxTicks /\ Advance(d)
    \/ Sweep

\* every router on its own: a few requests, any outcome of their sends, and time
\* enough for the sweep to meet an old record
Spec == Init /\ [][Next]_vars

ValMaxReq == 1

NextValidate ==
    \/ \E path \in PostPaths(loaded), raw \in OneMissing :
          Len(reqs) < ValMaxReq /\ Submit(path, "10.0.0.1", raw)
    \/ Pipeline

\* every router on its own, with bodies that lack a field
SpecValidate == Init /\ [][NextValidate]_vars

(***************************************************************************)
(* Properties                                                              *)
(***************************************************************************)
Done(r) == r.phase = "done"

\* the request got past the limiter and the validation chains
Passed(r) == r.phase # "done" \/ r.resp.status \notin {400, TooManyRequests}

\* the store of router h holds a record with this id
InStore(h, id) == \E k \in 1..Len(store[h]) : heap[store[h][k]].id = id

\* the GET list response just sent by router h holds a record with this id
Lists(h, id) == \E k \in 1..Len(listed.data) : listed.data[k].id = id

\* every send the handler of r waited for was delivered
Delivered(r) == r.admin = "ok" /\ (r.user = "ok" \/ r.h = "ttl")

RateMaxReq == 7

RateMaxSubs == 1

RateTicks == 2

\* two thirds of the limiter's window
RateStep == (2 * WindowMs) \div 3

\* the address whose requests the limiter is watched on
Client == "10.0.0.1"

\* the routers with the mail account configured
InitRate == \E d \in Handlers : Start(d) /\ env.creds /\ ~env.dev

\* requests come one after the other; an address other than Client sends the
\* first request the limiter sees of it
NextRate ==
    \/ \E path \in PostPaths(loaded), ip \in IPs, raw \in Bodies :
          /\ reqs = <<>>
          /\ arrived < RateMaxReq
          /\ ip = Client \/ hits[ip] = NoHits
          /\ Len(heap) < RateMaxSubs
                \/ ~Persists(Serves(loaded, path),
                             Gate(Serves(loaded, path), ip,
                                  Restrict(raw, BodyFields(Serves(loaded, path)))))
          /\ Submit(path, ip, raw)
    \/ Pipeline
    \/ \E i \in 1..Len(reqs) : Close(i)
    \/ ticks < RateTicks /\ Advance(RateStep)

\* every router on its own, over a span of time longer than the limiter's window
SpecRate == InitRate /\ [][NextRate]_vars

AppMaxReq == 2

\* the body of the sub-domain contact form
ContactBody == Restrict(FullBody, {"name", "email", "phone"})

\* the application of server.js, with either version of routes/contact.js
InitApp == \E d \in Deployments : IsApp(d) /\ Start(d)

NextApp ==
    \/ \E path \in PostPaths(loaded), raw \in {FullBody, ContactBody} :
          Len(reqs) < AppMaxReq /\ Submit(path, Client, raw)
    \/ Pipeline

SpecApp == InitApp /\ [][NextApp]_vars

\* the fields the spec calls required
Required(h) ==
    CASE h = "basic" -> {"name", "email", "category", "message", "age"}
      [] h = "signup" -> {"name", "email", "phone"}
      [] OTHER -> {"name", "email"}

Names(errs, f) == \E k \in 1..Len(errs) : errs[k].field = f

\* the request is answered 400, success false, with an error entry for field f
Rejects(r, f) ==
    /\ r.resp.status = 400
    /\ r.resp.success = "false"
    /\ Names(r.resp.errors, f)

\* C2 as stated: a submit that lacks a required field (name, email; phone in
\* signup; category, message and age in the basic contact router) is answered 400
\* with an error entry that names the field
C2_MissingFieldRejected ==
    \A i \in 1..Len(reqs) :
        Done(reqs[i]) /\ reqs[i].resp.status # TooManyRequests =>
            \A f \in Required(reqs[i].h) \ DOMAIN reqs[i].body : Rejects(reqs[i], f)

\* C2 without age: what the validation chains of the code do enforce
C2_RuledFieldRejected ==
    \A i \in 1..Len(reqs) :
        reqs[i].resp.status # TooManyRequests =>
            \A f \in (Required(reqs[i].h) \ {"age"}) \ DOMAIN reqs[i].body :
                Rejects(reqs[i], f)

\* the step is the arrival of a submit request
Arrives == arrived' = arrived + 1

\* the request that arrives in the step
New == reqs'[Len(reqs')]

\* the step starts no send and settles none
NoSend ==
    /\ New.admin = "none"
    /\ New.user = "none"
    /\ \A k \in 1..Len(reqs) : reqs'[k] = reqs[k]

\* C3: a submit that is answered 400 or 429 leaves the heap and every store as they
\* were and starts no send; a step that inserts a record is the arrival of a
\* request that the limiter let pass and whose body has no validation error
C3_RejectedLeavesStore ==
    [][Arrives =>
          /\ (New.resp.status \in {400, TooManyRequests} =>
                heap' = heap /\ store' = store /\ NoSend)
          /\ (heap' # heap \/ store' # store =>
                /\ ~OverLimit(New.h, New.ip)
                /\ ValidationErrors(New.h, New.body) = <<>>)]_vars

\* C3: a request was rejected while its router's store held a record
C3_Witness ==
    \E i \in 1..Len(reqs) :
        /\ reqs[i].resp.status \in {400, TooManyRequests}
        /\ HasStore(reqs[i].h)
        /\ store[reqs[i].h] # <<>>

\* the status member of object o of heap hp, if it has one
StatusIn(hp, o) == IF "status" \in DOMAIN hp[o] THEN hp[o].status ELSE "undefined"

\* object o is an entry of the store of router h
Stored(objs, o) == \E k \in 1..Len(objs) : objs[k] = o

\* a send of request r failed that its handler does not tolerate
DispatchFailed(r) == r.admin = "failed" \/ (r.user = "failed" /\ r.h # "ttl")

\* request i is answered in the step
Answered(i) == ~Done(reqs[i]) /\ Done(reqs'[i])

FailureAnswer(r) == r.resp.status \in {500, 503} /\ r.resp.success = "false"

UserOnlyFailed(r) == r.admin = "ok" /\ r.user = "failed"

SuccessAnswer(r) == r.resp.status = 200 /\ r.resp.success = "true"

\* C8 as stated: in every handler a request whose admin send was delivered and
\* whose user send failed is answered 200 with success true, and its status, where
\* one is kept, is 'completed'
C8_UserFailureTolerated ==
    \A i \in 1..Len(reqs) :
        Done(reqs[i]) /\ UserOnlyFailed(reqs[i]) =>
            /\ SuccessAnswer(reqs[i])
            /\ (HasStatus(reqs[i].h) => heap[reqs[i].obj].status = "completed")

\* C8, amended: only the router of SubdomainContact.js tolerates the failure of the
\* user send (200, success true, status 'completed'); in every other handler the
\* request fails with 500 and success false, and its status, where one is kept, is
\* 'failed'
C8_UserFailureByRouter ==
    \A i \in 1..Len(reqs) :
        Done(reqs[i]) /\ UserOnlyFailed(reqs[i]) =>
            IF reqs[i].h = "ttl"
            THEN /\ SuccessAnswer(reqs[i])
                 /\ heap[reqs[i].obj].status = "completed"
            ELSE /\ reqs[i].resp.status = 500
                 /\ reqs[i].resp.success = "false"
                 /\ (HasStatus(reqs[i].h) => heap[reqs[i].obj].status = "failed")

\* C8: the router of SubdomainContact.js answered 200 although the user send failed
C8_Witness ==
    \E i \in 1..Len(reqs) :
        /\ reqs[i].h = "ttl"
        /\ UserOnlyFailed(reqs[i])
        /\ SuccessAnswer(reqs[i])
        /\ heap[reqs[i].obj].status = "completed"

\* C9: a request whose admin send failed is answered, with 500 or 503 and success
\* false and never 200, whatever became of its user send, and its status, where one
\* is kept, is 'failed'
C9_AdminFailureFails ==
    \A i \in 1..Len(reqs) :
        reqs[i].admin = "failed" =>
            /\ Done(reqs[i])
            /\ FailureAnswer(reqs[i])
            /\ reqs[i].resp.status # 200
            /\ (HasStatus(reqs[i].h) => heap[reqs[i].obj].status = "failed")

\* C9: the admin send failed after the user send was delivered, and the request
\* failed
C9_Witness ==
    \E i \in 1..Len(reqs) :
        /\ reqs[i].admin = "failed"
        /\ reqs[i].user = "ok"
        /\ HasStatus(reqs[i].h)
        /\ FailureAnswer(reqs[i])
        /\ heap[reqs[i].obj].status = "failed"

\* the status objects are born with and the statuses that end a submission
Final == {"completed", "failed"}

\* C10: an object that keeps a status enters the heap with status 'pending'; a step
\* that changes the status of an object changes it from 'pending' to 'completed' or
\* to 'failed', so no step changes a 'completed' or 'failed' status
C10_StatusForwardOnly ==
    [][/\ \A o \in 1..Len(heap) :
            /\ DOMAIN heap[o] \subseteq DOMAIN heap'[o]
            /\ StatusIn(heap', o) # StatusIn(heap, o) =>
                  StatusIn(heap, o) = "pending" /\ StatusIn(heap', o) \in Final
       /\ \A o \in (Len(heap) + 1)..Len(heap') :
            StatusIn(heap', o) \in {"pending", "undefined"}
       /\ Len(heap') >= Len(heap)]_vars

\* C10: one record has reached 'completed' and another 'failed'
C10_Witness ==
    \E o, q \in 1..Len(heap) :
        StatusIn(heap, o) = "completed" /\ StatusIn(heap, q) = "failed"

\* the request that arrives in the step meets contactLimiter
Limited == Arrives /\ HasLimiter(New.h)

\* contactLimiter refuses the request that arrives in the step
Refused == New.resp.status = TooManyRequests /\ New.resp.message = RateLimitMessage

\* MaxHits earlier requests of address ip lie within the last WindowMs
FullTrail(ip) == Len(recent[ip]) = MaxHits /\ now - recent[ip][1] < WindowMs

\* the window of address ip is open and MaxHits of its requests were counted in it
FullWindow(ip) == hits[ip].count >= MaxHits /\ now < hits[ip].resetTime

C6_LimitBeforeValidation ==
    [][Limited /\ FullWindow(New.ip) =>
          /\ New.resp.status = TooManyRequests
          /\ New.resp.status # 400
          /\ New.resp.message = RateLimitMessage
          /\ New.resp.errors = <<>>
          /\ New.phase = "done"]_vars

\* C6: a request with validation errors was answered 429
C6_Witness ==
    \E i \in 1..Len(reqs) :
        /\ reqs[i].resp.status = TooManyRequests
        /\ ValidationErrors(reqs[i].h, reqs[i].body) # <<>>

\* C7 as stated: POST /subdomain-contact/submit of the application is served by a
\* router with contactLimiter in front, and a body of valid name, email and phone
\* is not answered 400
C7_SubdomainRouteLimited ==
    \A i \in 1..Len(reqs) :
        reqs[i].path = "/subdomain-contact/submit" =>
            /\ HasLimiter(reqs[i].h)
            /\ (reqs[i].body = ContactBody => reqs[i].resp.status # 400)

\* C7: what the application does serve the path with: the router of
\* routes/contact.js, which has no limiter
C7_ServedByContactRouter ==
    \A i \in 1..Len(reqs) :
        reqs[i].path = "/subdomain-contact/submit" =>
            /\ reqs[i].h = ContactModule(loaded)
            /\ ~HasLimiter(reqs[i].h)
            /\ hits = [ip \in IPs |-> NoHits]

\* C11: a GET list of a router returns the record of every request of the router
\* that got as far as its insertion, as the record is at that moment, whether the
\* sends of the request are in flight, were delivered or have failed
C11_ListedOnceInserted ==
    \A i \in 1..Len(reqs) :
        reqs[i].obj # 0 /\ listed.h = reqs[i].h =>
            \E k \in 1..Len(listed.data) : listed.data[k] = heap[reqs[i].obj]

\* C11: a GET list returned a record whose request still waits for a send, next to
\* a record whose request was answered
C11_Witness ==
    \E i, j \in 1..Len(reqs) :
        /\ listed.h = reqs[i].h
        /\ reqs[i].obj # 0 /\ reqs[i].phase = "sending"
        /\ reqs[j].obj # 0 /\ Done(reqs[j])
        /\ Lists(reqs[i].h, heap[reqs[i].obj].id)
        /\ Lists(reqs[j].h, heap[reqs[j].obj].id)

SweepMaxReq == 2

SweepTicks == 2

\* the router of SubdomainContact.js with the mail account configured
InitSweep == Start("ttl") /\ env.creds /\ ~env.dev

\* requests, and the clock going on by the sweep interval or by the retention time
NextSweep ==
    \/ Len(reqs) < SweepMaxReq /\ Submit("/submit", Client, ContactBody)
    \/ \E i \in 1..Len(reqs) : Dispatch(i)
    \/ \E i \in 1..Len(reqs), o \in Outcomes(env) : SettleAdmin(i, o)
    \/ \E i \in 1..Len(reqs), o \in Outcomes(env) : SettleUser(i, o)
    \/ \E d \in {SweepIntervalMs, SUBMISSION_TTL} : ticks < SweepTicks /\ Advance(d)
    \/ Sweep

SpecSweep == InitSweep /\ [][NextSweep]_vars

\* the step is a run of the sweep
Sweeps == lastSweep' # lastSweep /\ now' = now

\* C12: a run of the sweep removes from the store every record that is more than 24
\* hours old and no other: the other records stay, in their order, and no record
\* changes
C12_SweepRemovesOld ==
    [][Sweeps =>
          /\ heap' = heap
          /\ \A o \in 1..Len(heap) :
                Stored(store'["ttl"], o) <=>
                    Stored(store["ttl"], o) /\ now - heap[o].date <= SUBMISSION_TTL
          /\ \A k, l \in 1..Len(store'["ttl"]) :
                k < l => \E m, n \in 1..Len(store["ttl"]) :
                            /\ m < n
                            /\ store["ttl"][m] = store'["ttl"][k]
                            /\ store["ttl"][n] = store'["ttl"][l]
          /\ \A h \in Handlers \ {"ttl"} : store'[h] = store[h]]_vars

\* C12: the sweep has just run; a record more than 24 hours old is gone and a record
\* one hour old is in the store
C12_Witness ==
    /\ lastSweep = now
    /\ \E o, q \in 1..Len(heap) :
          /\ now - heap[o].date > SUBMISSION_TTL
          /\ ~Stored(store["ttl"], o)
          /\ now - heap[q].date = SweepIntervalMs
          /\ Stored(store["ttl"], q)

\* C13 as stated: no two submissions accepted by a router have the same id, also
\* when they were created at the same clock reading
C13_IdsUnique ==
    \A i, j \in 1..Len(reqs) :
        /\ i # j
        /\ reqs[i].obj # 0 /\ reqs[j].obj # 0
        /\ reqs[i].h = reqs[j].h
        => heap[reqs[i].obj].id # heap[reqs[j].obj].id

\* C13: what does hold of the ids: a record keeps the id it was created with, and
\* two records of a router have the same id only if they were created at the same
\* clock reading
C13_IdIsClockReading ==
    [][/\ \A o \in 1..Len(heap) : heap'[o].id = heap[o].id
       /\ \A o \in 1..Len(heap') : heap'[o].id = heap'[o].date]_vars

\* the catch block took the error for a configuration failure
ConfigFailure(r) == r.resp.message = "Service temporarily unavailable"

\* request r of a router that maps its failures to a status was answered by the
\* catch block
Caught(r) == Done(r) /\ HasStatus(r.h) /\ r.resp.success = "false" /\ r.resp.status # 400

\* C14 as stated: in the routers whose catch block chooses a status, a request whose
\* dispatch failed is answered 503 when the failure is one of credentials and 500
\* otherwise
C14_ConfigFailure503 ==
    \A i \in 1..Len(reqs) :
        Caught(reqs[i]) =>
            reqs[i].resp.status = IF ConfigFailure(reqs[i]) THEN 503 ELSE 500

\* C14: the router of SubdomainContact.js does so, the enhanced contact router
\* answers 500 in both cases
C14_StatusByRouter ==
    \A i \in 1..Len(reqs) :
        Caught(reqs[i]) =>
            reqs[i].resp.status =
                IF ConfigFailure(reqs[i]) /\ reqs[i].h = "ttl" THEN 503 ELSE 500

\* request r has started a send
Sent(r) == r.admin # "none" \/ r.user # "none"

\* C15 as stated: no request of any router gets as far as a send when the mail
\* account was absent as the transport was built
C15_NoSendWithoutCredentials ==
    \A i \in 1..Len(reqs) : Sent(reqs[i]) => env.creds

\* C15: what holds of the routers that build the transport with createTransporter:
\* without the mail account the import throws and no request is ever served
C15_CheckedTransportFailsFast ==
    ~env.creds /\ Modules(loaded) \cap {"enhanced", "ttl"} # {} =>
        Crashed /\ reqs = <<>> /\ heap = <<>>

\* request r was answered by a catch block
FailedAnswer(r) == Done(r) /\ r.resp.status \in {500, 503}

\* C16 as stated: outside development mode the failure response of every router
\* carries no error member, only the generic message
C16_NoErrorDetail ==
    ~env.dev =>
        \A i \in 1..Len(reqs) : FailedAnswer(reqs[i]) => reqs[i].resp.error = "undefined"

\* C16: what holds: the routers of SubdomainContact.js and part_002 and the second
\* router of SignUp.js send no error member outside development mode; the basic
\* contact router and the signup router always send error.message
C16_ErrorDetailByRouter ==
    \A i \in 1..Len(reqs) :
        FailedAnswer(reqs[i]) =>
            IF reqs[i].h \in {"basic", "signup"}
            THEN reqs[i].resp.error \in {MissingCredentials, ConnRefused}
            ELSE ~env.dev => reqs[i].resp.error = "undefined"

(***************************************************************************)
(* The e-mail templates: the values they embed, in the order of the        *)
(* template, each as the template computes it.  The fixed text between the  *)
(* values holds no user input                                              *)
(***************************************************************************)
\* escapeHtml(unsafe): the replacement of one character
EscapeHtmlChar(c) ==
    CASE c = "&" -> <<"&", "a", "m", "p", ";">>
      [] c = "<" -> <<"&", "l", "t", ";">>
      [] c = ">" -> <<"&", "g", "t", ";">>
      [] c = "\"" -> <<"&", "q", "u", "o", "t", ";">>
      [] c = "'" -> <<"&", "#", "0", "3", "9", ";">>
      [] OTHER -> <<c>>

\* a value that JavaScript takes for true
Truthy(v) == v \notin {NULL, UNDEFINED, <<>>}

RECURSIVE EscapeAll(_)
EscapeAll(s) == IF s = <<>> THEN <<>> ELSE EscapeHtmlChar(Head(s)) \o EscapeAll(Tail(s))

\* escapeHtml(unsafe)
EscapeHtml(v) == IF Truthy(v) THEN EscapeAll(v) ELSE <<>>

\* s.replace(/[^\d+]/g, ''): the digits and plus signs of s
RECURSIVE DialChars(_)
DialChars(s) ==
    IF s = <<>> THEN <<>>
    ELSE IF Head(s) \in Digits \cup {"+"} THEN <<Head(s)>> \o DialChars(Tail(s))
    ELSE DialChars(Tail(s))

\* s.replace(/\n/g, '<br>')
RECURSIVE BreakLines(_)
BreakLines(s) ==
    IF s = <<>> THEN <<>>
    ELSE IF Head(s) = "\n" THEN <<"<", "b", "r", ">">> \o BreakLines(Tail(s))
    ELSE <<Head(s)>> \o BreakLines(Tail(s))

\* name.split(' ')[0]
FirstName(s) == Split(s, " ")[1]

\* ${cond ? `...` : ''}
When(cond, values) == IF cond THEN values ELSE <<>>

\* the values the admin e-mail of router h embeds for record rec
AdminHtml(h, rec) ==
    CASE h = "basic" ->
            <<rec.name, rec.age, rec.email, rec.email>>
            \o When(Truthy(rec.phone), <<rec.phone, rec.phone>>)
            \o <<rec.category, BreakLines(rec.message), rec.email, rec.name>>
      [] h = "enhanced" ->
            <<rec.name, rec.email, rec.email>>
            \o When(Truthy(rec.phone), <<DialChars(rec.phone), rec.phone>>)
      [] h = "signup" ->
            <<rec.name, rec.email, rec.email, rec.phone, rec.phone, rec.email,
              FirstName(rec.name), rec.phone, FirstName(rec.name)>>
      [] h = "ttl" ->
            <<EscapeHtml(rec.name), EscapeHtml(rec.email), EscapeHtml(rec.email)>>
            \o When(Truthy(rec.phone), <<DialChars(rec.phone), EscapeHtml(rec.phone)>>)
      [] h = "submail" ->
            <<EscapeHtml(rec.name), EscapeHtml(rec.email), EscapeHtml(rec.email)>>
            \o When(Truthy(rec.phone), <<EscapeHtml(rec.phone)>>)

\* the values the user e-mail of router h embeds for record rec
UserHtml(h, rec) ==
    CASE h = "basic" ->
            <<rec.name, rec.category, rec.category, rec.age, BreakLines(rec.message)>>
      [] h = "enhanced" -> <<rec.name>>
      [] h = "signup" -> <<FirstName(rec.name)>>
      [] h = "ttl" -> <<EscapeHtml(rec.name)>>
      [] h = "submail" ->
            <<EscapeHtml(rec.name), EscapeHtml(rec.name), EscapeHtml(rec.email)>>

\* what the templates of request r are given: its record, or in the router without
\* a store the fields of its sanitized body
Templated(r) ==
    IF r.obj # 0 THEN heap[r.obj]
    ELSE [f \in {"name", "email", "phone"} |-> Field(Sanitized(r.h, r.body), f)]

\* the e-mails of request r are rendered
Rendered(r) == r.admin # "none"

\* every value the two e-mails of request r embed
Embedded(r) == AdminHtml(r.h, Templated(r)) \o UserHtml(r.h, Templated(r))

RenderMaxReq == 1

Script == <<"<", "s", "c", "r", "i", "p", "t", ">">>

Tagged == <<"<", "b", ">">>

\* an address that isEmail accepts, with an ampersand in its local part
AmpMail == <<"a", "&", "b", "@", "b", ".", "c", "o">>

With(b, f, v) == [b EXCEPT ![f] = v]

\* the full body with markup in one of its fields
RenderBodies ==
    {FullBody, With(FullBody, "name", Script),
     With(FullBody, "name", <<"x", " ">> \o Script),
     With(FullBody, "email", AmpMail), With(FullBody, "phone", Tagged),
     With(FullBody, "category", Tagged), With(FullBody, "age", Tagged),
     With(FullBody, "message", <<"a", "\"", "b">>)}

NextRender ==
    \/ \E path \in PostPaths(loaded), raw \in RenderBodies :
          Len(reqs) < RenderMaxReq /\ Submit(path, Client, raw)
    \/ Pipeline

\* every router on its own, with bodies that carry markup
SpecRender == Init /\ [][NextRender]_vars

\* text sub occurs in text s
Contains(s, sub) ==
    \E i \in 1..Len(s) :
        i + Len(sub) - 1 <= Len(s) /\ SubSeq(s, i, i + Len(sub) - 1) = sub

\* the name that request r submitted holds a script tag
ScriptInName(r) == "name" \in DOMAIN r.body /\ Contains(r.body.name, Script)

\* C17: when the submitted name of an accepted request holds '<script>', no value
\* that its admin e-mail or its user e-mail embeds holds '<script>', in any router
C17_NameScriptEscaped ==
    \A i \in 1..Len(reqs) :
        Rendered(reqs[i]) /\ ScriptInName(reqs[i]) =>
            \A k \in 1..Len(Embedded(reqs[i])) : ~Contains(Embedded(reqs[i])[k], Script)

\* C17: the e-mails of a request whose name held '<script>' were rendered, with the
\* tag in its escaped form
C17_Witness ==
    \E i \in 1..Len(reqs) :
        /\ Rendered(reqs[i])
        /\ ScriptInName(reqs[i])
        /\ \E k \in 1..Len(Embedded(reqs[i])) :
              Contains(Embedded(reqs[i])[k], <<"&", "l", "t", ";", "s", "c", "r", "i", "p", "t">>)

\* the character references that escape() and escapeHtml() write
Entities ==
    {EscapeChar(c) : c \in {"&", "\"", "'", "<", ">", "/", "\\"}}
        \cup {EscapeHtmlChar(c) : c \in {"&", "\"", "'", "<", ">"}}

\* text s has, at position i, a markup character that is not part of a reference
BareAt(s, i) ==
    \/ s[i] \in {"<", ">", "\""}
    \/ /\ s[i] = "&"
       /\ ~\E e \in Entities :
              i + Len(e) - 1 <= Len(s) /\ SubSeq(s, i, i + Len(e) - 1) = e

Unescaped(s) == \E i \in 1..Len(s) : BareAt(s, i)

\* C18 as stated: no value that an e-mail of an accepted request embeds holds a
\* '<', '>', '"' or '&' that is not escaped
C18_EveryFieldEscaped ==
    \A i \in 1..Len(reqs) :
        Rendered(reqs[i]) =>
            \A k \in 1..Len(Embedded(reqs[i])) : ~Unescaped(Embedded(reqs[i])[k])

\* C18: what holds: the templates of SubdomainContact.js and of the second router
\* of SignUp.js escape every value, and in every router the name is escaped
C18_EscapedWhereEscaped ==
    \A i \in 1..Len(reqs) :
        Rendered(reqs[i]) =>
            /\ ~Unescaped(Templated(reqs[i]).name)
            /\ (HasLimiter(reqs[i].h) =>
                  \A k \in 1..Len(Embedded(reqs[i])) : ~Unescaped(Embedded(reqs[i])[k]))

EmailMaxReq == 1

FooExample ==
    <<"F", "o", "o", "@", "E", "X", "A", "M", "P", "L", "E", ".", "c", "o", "m">>

\* the full body with an address in capitals, and with whitespace around it
EmailBodies ==
    {With(FullBody, "email", e) :
        e \in {Mail, FooExample, FooExample \o <<" ">>, <<" ">> \o FooExample}}

NextEmail ==
    \/ \E path \in PostPaths(loaded), raw \in EmailBodies :
          Len(reqs) < EmailMaxReq /\ Submit(path, Client, raw)
    \/ Pipeline

\* every router on its own, with addresses that are not in canonical form
SpecEmail == Init /\ [][NextEmail]_vars

\* the canonical form of an address that is not a gmail address
Canonical(e) == ToLower(Trim(e))

\* the address the handler of request r works with
AddressOf(r) == Templated(r).email

\* C19 as stated: an address that is valid but for whitespace around it or capital
\* letters is accepted by every router, and the record holds its canonical form
C19_EmailCanonicalised ==
    \A i \in 1..Len(reqs) :
        /\ reqs[i].resp.status # 400
        /\ AddressOf(reqs[i]) = Canonical(reqs[i].body.email)

\* C19: what holds: the routers whose chain trims first (SubdomainContact.js and the
\* second router of SignUp.js) do so; the others lowercase an address without
\* whitespace around it and answer 400 to one with whitespace around it
C19_CanonicalWhereTrimmed ==
    \A i \in 1..Len(reqs) :
        IF HasLimiter(reqs[i].h) \/ Trim(reqs[i].body.email) = reqs[i].body.email
        THEN /\ reqs[i].resp.status # 400
             /\ AddressOf(reqs[i]) = Canonical(reqs[i].body.email)
        ELSE /\ reqs[i].resp.status = 400
             /\ Names(reqs[i].resp.errors, "email")
             /\ reqs[i].obj = 0

\* C20 as stated: in every router the user confirmation send is started together
\* with the admin send, whatever the admin send comes to
C20_SendsStartedTogether ==
    \A i \in 1..Len(reqs) : reqs[i].admin # "none" => reqs[i].user # "none"

\* C20: what holds: the routers that await Promise.all start both sends in one
\* step; those that await each sendMail in turn (part_000 and the first router of
\* SignUp.js) start the user send only once the admin send succeeded
C20_StartedByRouter ==
    \A i \in 1..Len(reqs) :
        IF Sequential(reqs[i].h)
        THEN reqs[i].user # "none" => reqs[i].admin = "ok"
        ELSE reqs[i].admin # "none" <=> reqs[i].user # "none"

InFlight(r) == r.admin = "inflight" \/ r.user = "inflight"

\* C21 as stated: no request is answered while one of its sends is still in flight
C21_AnsweredAfterBothSettled ==
    \A i \in 1..Len(reqs) : Done(reqs[i]) => ~InFlight(reqs[i])

\* C21: what holds: a 200 is sent only after both sends settled, and the routers
\* that await each send in turn never answer with a send in flight; a router that
\* awaits Promise.all answers a failure as soon as the first send rejects
C21_SuccessAfterBothSettled ==
    \A i \in 1..Len(reqs) :
        Done(reqs[i]) /\ InFlight(reqs[i])
            => /\ ~Sequential(reqs[i].h)
               /\ reqs[i].resp.status \in {500, 503}
               /\ "failed" \in {reqs[i].admin, reqs[i].user}

\* C22 as stated: in the store of SubdomainContact.js only a run of the sweep takes
\* a record out; no insert or status update of another submission removes or
\* replaces it
C22_StoredUntilSwept ==
    [][~Sweeps =>
          \A o \in 1..Len(heap) :
              Stored(store["ttl"], o) => Stored(store'["ttl"], o)]_vars

\* C22: what holds: outside the sweep a record leaves the store only when the
\* insert or the status update of a submission created at the same clock reading
\* sets the key they share, and the other submission's record takes its place
C22_ReplacedOnlyBySameKey ==
    [][~Sweeps =>
          \A o \in 1..Len(heap) :
              Stored(store["ttl"], o) /\ ~Stored(store'["ttl"], o)
                  => \E q \in 1..Len(heap') :
                        /\ q # o
                        /\ heap'[q].id = heap[o].id
                        /\ Stored(store'["ttl"], q)
                        /\ ~Stored(store["ttl"], q)]_vars

NameMaxReq == 2

\* the full body with names of three characters and fewer, with and without
\* whitespace around them
NameBodies ==
    {With(FullBody, "name", n) :
        n \in {Bob, <<" ", "B", "o", "b", " ">>, <<"a", "b">>, <<" ", "a", "b">>,
               <<" ", " ", " ">>, <<" ", " ">>, Tagged}}

\* the first router of SignUp.js on its own
InitSignup == Start("signup")

NextSignup ==
    \/ \E raw \in NameBodies : Len(reqs) < NameMaxReq /\ Submit("/", Client, raw)
    \/ \E i \in 1..Len(reqs), o \in Outcomes(env) : SettleAdmin(i, o)
    \/ \E i \in 1..Len(reqs), o \in Outcomes(env) : SettleUser(i, o)
    \/ GetList("signup")

SpecSignup == InitSignup /\ [][NextSignup]_vars

\* C23 as stated: the signup router answers 400 to a name that is shorter than 3
\* characters once trimmed, and the name it stores is the trimmed, escaped input,
\* at least 3 characters long
C23_SignupNameTrimmedLength ==
    \A i \in 1..Len(reqs) :
        LET r == reqs[i]
        IN  r.h = "signup" =>
               IF Len(Trim(r.body.name)) < 3
               THEN r.resp.status = 400
               ELSE /\ r.obj # 0
                    /\ heap[r.obj].name = Escape(Trim(r.body.name))
                    /\ Len(heap[r.obj].name) >= 3

\* C23: what holds: the length is taken before the trim, so the router answers
\* 400 to a name of fewer than 3 characters as submitted, whitespace counted, and
\* stores any other name trimmed and escaped, however short that leaves it
C23_SignupNameRawLength ==
    \A i \in 1..Len(reqs) :
        LET r == reqs[i]
        IN  r.h = "signup" =>
               IF Len(r.body.name) < 3
               THEN r.resp.status = 400 /\ Names(r.resp.errors, "name") /\ r.obj = 0
               ELSE /\ r.obj # 0
                    /\ heap[r.obj].name = Escape(Trim(r.body.name))

\* the status that goes with the answer of request r
StatusFor(r) == IF r.resp.status = 200 THEN "completed" ELSE "failed"

\* an accepted submission whose handler has responded
AnsweredAccepted(r) == Done(r) /\ r.obj # 0

StatusFields == {"status", "error"}

\* object o is the same in the next state but for its status and error
SameButStatus(o) ==
    /\ DOMAIN heap[o] \subseteq DOMAIN heap'[o]
    /\ DOMAIN heap'[o] \ DOMAIN heap[o] \subseteq {"error"}
    /\ \A f \in DOMAIN heap[o] \ StatusFields : heap'[o][f] = heap[o][f]

\* the step is the status update of a handler: a record changes, none is created
Updates == heap' # heap /\ Len(heap') = Len(heap)

\* C25 as stated: no step changes the id, name, email, phone or date of a record,
\* and the status update of one submission leaves every other record as it is and
\* where it is in the store
C25_StatusUpdateFrame ==
    [][/\ \A o \in 1..Len(heap) : SameButStatus(o)
       /\ Updates =>
             \E u \in 1..Len(heap) :
                 \A o \in 1..Len(heap) \ {u} :
                     /\ heap'[o] = heap[o]
                     /\ \A h \in Handlers :
                           Stored(store[h], o) => Stored(store'[h], o)]_vars

\* C25: what holds: a record keeps every field but status and error, and a status
\* update changes no other record; it takes another record out of the store only
\* in SubdomainContact.js, when the two were created at the same clock reading
C25_FieldsFixed ==
    [][/\ \A o \in 1..Len(heap) : SameButStatus(o)
       /\ Updates =>
             \E u \in 1..Len(heap) :
                 \A o \in 1..Len(heap) \ {u} :
                     /\ heap'[o] = heap[o]
                     /\ \A h \in Handlers :
                           Stored(store[h], o) /\ ~Stored(store'[h], o)
                               => h = "ttl" /\ heap[o].id = heap[u].id]_vars

\* the sweep has run since record o grew older than the retention time, and no
\* record with the id of o is in the store
Swept(o) ==
    /\ lastSweep - heap[o].date > SUBMISSION_TTL
    /\ \A q \in 1..Len(heap) : Stored(store["ttl"], q) => heap[q].id # heap[o].id

\* a record with the id of o is in the store after the step
Back(o) ==
    \E q \in 1..Len(heap') : Stored(store'["ttl"], q) /\ heap'[q].id = heap[o].id

\* C26 as stated: once the sweep has removed a record of SubdomainContact.js, no
\* step puts a record with its id into the store again
C26_SweptStaysOut ==
    [][\A o \in 1..Len(heap) : Swept(o) => ~Back(o)]_vars

\* C26: what holds: a swept id comes back only by the status update of a handler
\* whose sends settled after the sweep, which sets its own record again; no new
\* submission gets a swept id
C26_BackOnlyByStatusUpdate ==
    [][\A o \in 1..Len(heap) :
          Swept(o) /\ Back(o) =>
              /\ Updates
              /\ \E q \in 1..Len(heap) :
                    /\ heap[q].id = heap[o].id
                    /\ heap'[q] # heap[q]
                    /\ Stored(store'["ttl"], q)
                    /\ heap'[q].status \in {"completed", "failed"}]_vars

====
